---- MODULE Spec2Model ----
(***************************************************************************)
(* Model of sat-bot's watch and notification engine: the JSON database     *)
(* behind a tokio RwLock, the commands that mutate it                       *)
(* (src/commands/location.rs, src/commands/watch.rs), the cycle             *)
(* notify_of_new_passes and the interval task of src/main.rs.               *)
(*                                                                         *)
(* Every handler is cut at its .await points: one action runs the code     *)
(* from one await to the next.  A command's arguments are drawn in the     *)
(* step that acquires the lock; until then nothing reads them.  Latitude,  *)
(* longitude and altitude of a Location are only passed on to the          *)
(* prediction source and are left out of the record.                       *)
(*                                                                         *)
(* Two variables observe the program without steering it: returned holds   *)
(* what the call that ended in the last step gave back, and log holds,     *)
(* per subscription, what the running cycle fetched, staged and sent.      *)
(* Both are forgotten one step after the call has ended.                   *)
(*                                                                         *)
(* Spec is the whole system.  SpecLive is the system with one location    *)
(* and one subscription under the runtime's scheduling.  SpecCycle is the  *)
(* interval task alone on the stores of CycleStores, with every answer of  *)
(* the prediction source and a moving clock.  SpecWatch is watch_satellite *)
(* with thresholds around the limits of its check.  SpecPolicy is the      *)
(* duplicate test and the retain step applied to histories, passes and     *)
(* clock values around their boundaries.  SpecOpen is Database::open at    *)
(* startup on a file that is absent, unreadable or a stored snapshot.      *)
(***************************************************************************)
EXTENDS Integers, Sequences, FiniteSets, TLC

\* ------------------------------------------------------------------ bounds
MaxSubs == 2
MaxLocs == 2
MaxHist == 2
MaxPasses == 2
MaxSaveFailures == 1

\* ------------------------------------------------------- program constants
TOLERANCE == 10
RETENTION == 24 * 60 * 60
DefaultLocale == "en-GB"

\* ------------------------------------------------------------ input domains
SatelliteIds == {25338, 33591}
LocationNames == {"Backyard", "Roof"}
Users == {"U1", "U2"}
Channels == {"C1", "C2"}
ClockValues == {900, 87401}

Pass(s, e, el) == [start_utc |-> s, end_utc |-> e, max_elevation |-> el]
PassPool == { Pass(1000, 1300, 35), Pass(1004, 1296, 35), Pass(1010, 1300, 20) }

Handlers == {"h1"}
Procs == {"sched"} \cup Handlers
Commands ==
    { "add_location", "remove_location", "watch_satellite",
      "unwatch_satellite", "update_watched_satellites" }

\* -------------------------------------------------------------------- state
VARIABLES
    contents,                   \* Database.contents, the in-memory snapshot
    disk,                       \* the snapshot file at DATABASE_PATH
    lock,                       \* holder of the RwLock's write guard, or "free"
    pc,                         \* the await each task is suspended at
    cmd,                        \* the command a handler is running
    held,                       \* locals of the command that holds the guard
    idx,                        \* position of the cycle's for loop
    successful_notifications,   \* the cycle's staged (satellite_id, start, end)
    now,                        \* the wall clock read by util::current_utc
    save_failures,              \* how often std::fs::write has failed
    returned,                   \* the call that returned in the last step
    log                         \* what the cycle fetched, staged, sent so far

vars == << contents, disk, lock, pc, cmd, held, idx, successful_notifications,
           now, save_failures, returned, log >>

\* ------------------------------------------------------------------ helpers
Abs(x) == IF x < 0 THEN -x ELSE x

Range(s) == { s[i] : i \in DOMAIN s }

RemoveAt(s, i) == SubSeq(s, 1, i - 1) \o SubSeq(s, i + 1, Len(s))

\* Iterator::position over the indices that pass the test: the first of
\* them, 1-based; 0 stands for None.
Position(matching) ==
    IF matching = {} THEN 0
    ELSE CHOOSE i \in matching : \A j \in matching : i <= j

InjectiveSeqs(S, n) ==
    { s \in UNION { [1..k -> S] : k \in 0..n } :
        \A i, j \in DOMAIN s : i # j => s[i] # s[j] }

NoLocals == [kind |-> "none"]

NoReturn == [who |-> "none", call |-> "none", value |-> "none"]

Return(p, call, value) == [who |-> p, call |-> call, value |-> value]

EmptyContents == [locations |-> << >>, watched_satellites |-> << >>]

\* --------------------------------------------------------- util.rs, policy
\* The comparison made inclusive.
are_within_10_seconds_inclusive(a, b) == Abs(b - a) <= TOLERANCE

are_within_10_seconds(a, b) == Abs(b - a) < TOLERANCE

\* The test by equality of start and end.
AlreadyNotified_exact(previous_notifications, pass) ==
    \E k \in DOMAIN previous_notifications :
        /\ previous_notifications[k][1] = pass.start_utc
        /\ previous_notifications[k][2] = pass.end_utc

AlreadyNotified(previous_notifications, pass) ==
    \E k \in DOMAIN previous_notifications :
        /\ are_within_10_seconds(previous_notifications[k][1], pass.start_utc)
        /\ are_within_10_seconds(previous_notifications[k][2], pass.end_utc)

\* The elevation compared with > instead of >=.
NewPasses_strict(watched_satellite, passes) ==
    SelectSeq(passes, LAMBDA pass :
        /\ pass.max_elevation > watched_satellite.min_max_elevation
        /\ ~AlreadyNotified(watched_satellite.previous_notifications, pass))

\* The passes of one response that the loop over passes.passes stages.
NewPasses(watched_satellite, passes) ==
    SelectSeq(passes, LAMBDA pass :
        /\ pass.max_elevation >= watched_satellite.min_max_elevation
        /\ ~AlreadyNotified(watched_satellite.previous_notifications, pass))

\* The triple staged with the threshold where the satellite id belongs.
StagedTriples_elevation_as_id(watched_satellite, passes) ==
    LET new == NewPasses(watched_satellite, passes)
    IN  [k \in DOMAIN new |->
            << watched_satellite.min_max_elevation, new[k].start_utc, new[k].end_utc >>]

StagedTriples(watched_satellite, passes) ==
    LET new == NewPasses(watched_satellite, passes)
    IN  [k \in DOMAIN new |->
            << watched_satellite.satellite_id, new[k].start_utc, new[k].end_utc >>]

Windows(passes) == [k \in DOMAIN passes |-> << passes[k].start_utc, passes[k].end_utc >>]

FindLocation(locations, name) ==
    Position({ i \in DOMAIN locations : locations[i].name = name })

FindBySatelliteId(watched_satellites, id) ==
    Position({ i \in DOMAIN watched_satellites :
                   watched_satellites[i].satellite_id = id })

\* The commit loop: each staged triple goes to the first subscription found
\* by satellite id.
RECURSIVE RecordNotifications(_, _)
RecordNotifications(watched_satellites, successful) ==
    IF successful = << >> THEN watched_satellites
    ELSE LET s == Head(successful)
             k == FindBySatelliteId(watched_satellites, s[1])
         IN  RecordNotifications(
                 [watched_satellites EXCEPT
                     ![k].previous_notifications = Append(@, << s[2], s[3] >>)],
                 Tail(successful))

LookupPanics(watched_satellites, successful) ==
    \E k \in DOMAIN successful :
        FindBySatelliteId(watched_satellites, successful[k][1]) = 0

\* The retain closure with inclusive comparisons.
Prune_inclusive(previous_notifications, current_utc) ==
    SelectSeq(previous_notifications, LAMBDA e :
        /\ current_utc - RETENTION <= e[1]
        /\ current_utc - RETENTION <= e[2])

Prune(previous_notifications, current_utc) ==
    SelectSeq(previous_notifications, LAMBDA e :
        /\ current_utc - RETENTION < e[1]
        /\ current_utc - RETENTION < e[2])

\* The retain applied to the subscriptions: those left without history go.
PruneAll_dropping_empty(watched_satellites, current_utc) ==
    SelectSeq([k \in DOMAIN watched_satellites |->
                  [watched_satellites[k] EXCEPT
                      !.previous_notifications = Prune(@, current_utc)]],
              LAMBDA ws : ws.previous_notifications # << >>)

PruneAll(watched_satellites, current_utc) ==
    [k \in DOMAIN watched_satellites |->
        [watched_satellites[k] EXCEPT
            !.previous_notifications = Prune(@, current_utc)]]

\* The name the prediction source reports for a NORAD id.
SatelliteName(id) == IF id = 25338 THEN "NOAA 15" ELSE "NOAA 19"

\* Database::save: serialises contents and writes the file, or the write
\* fails and the file keeps what it had.
SaveOutcomes == IF save_failures < MaxSaveFailures THEN BOOLEAN ELSE {TRUE}

Saved(saved, new) ==
    /\ disk' = IF saved THEN new ELSE disk
    /\ save_failures' = IF saved THEN save_failures ELSE save_failures + 1

\* A lock taken with read() instead: it resolves whoever holds a guard.
CanWriteShared == TRUE

\* RwLock::write resolves only when no guard is out.
CanWrite == lock = "free"

CycleRunning == \E p \in Procs : pc[p] \in {"fetch", "send"}

\* A step outside the cycle leaves the log of a running cycle alone and
\* forgets the log of one that has ended.
KeepLog == log' = IF CycleRunning THEN log ELSE << >>

\* ------------------------------------------------------------------- Init
Init ==
    /\ contents = EmptyContents
    /\ disk = EmptyContents
    /\ lock = "free"
    /\ pc = [p \in Procs |-> IF p = "sched" THEN "tick" ELSE "idle"]
    /\ cmd = [h \in Handlers |-> "none"]
    /\ held = NoLocals
    /\ idx = 0
    /\ successful_notifications = << >>
    /\ now = 900
    /\ save_failures = 0
    /\ returned = NoReturn
    /\ log = << >>

\* ------------------------------------------- notify_of_new_passes (cycle)
\* One entry per subscription the loop has fetched for.  since is the clock
\* at the cycle's first fetch return, a time no earlier than the cycle's start.
LogEntry(i, fetch, passes, staged, sink) ==
    [sub |-> i, fetch |-> fetch, count |-> Len(passes), passes |-> passes,
     staged |-> staged, sink |-> sink,
     since |-> IF log = << >> THEN now ELSE log[1].since]

SetSink(lg, sink) == [lg EXCEPT ![Len(lg)].sink = sink]

\* The passes of a response are logged while its message is being sent;
\* after that the log keeps their number.
Summary(lg) == [k \in DOMAIN lg |-> [lg[k] EXCEPT !.passes = << >>]]

\* What the prediction source may answer at time t: passes that lie ahead.
Responses(t) ==
    { r \in InjectiveSeqs(PassPool, MaxPasses) :
        \A k \in DOMAIN r : r[k].start_utc >= t }

\* The answers drawn where the commands run too: none, or the scenario's pass.
SystemResponses(t) == { r \in Responses(t) : Range(r) \subseteq {Pass(1000, 1300, 35)} }

\* notify_of_new_passes returns r (or unwinds, r = "panic"); the write guard
\* is dropped.  The interval task discards the result and loops; a panic
\* ends the task.  update_watched_satellites goes on to ctx.say on Ok,
\* returns the error otherwise.
CycleReturns(p, r, lg) ==
    /\ lock' = "free"
    /\ idx' = 0
    /\ successful_notifications' = << >>
    /\ returned' = Return(p, "notify_of_new_passes", r)
    /\ log' = Summary(lg)
    /\ held' = held
    /\ IF p = "sched"
       THEN /\ pc' = [pc EXCEPT ![p] = IF r = "panic" THEN "dead" ELSE "tick"]
            /\ cmd' = cmd
       ELSE /\ pc' = [pc EXCEPT ![p] = IF r = "Ok" THEN "reply" ELSE "idle"]
            /\ cmd' = [cmd EXCEPT ![p] = IF r = "Ok" THEN @ ELSE "none"]

\* After the loop: append the staged windows, prune, save.
Commit(p, successful, lg) ==
    IF LookupPanics(contents.watched_satellites, successful)
    THEN /\ UNCHANGED << contents, disk, save_failures >>
         /\ CycleReturns(p, "panic", lg)
    ELSE LET new == [contents EXCEPT !.watched_satellites =
                        PruneAll(RecordNotifications(@, successful), now)]
         IN  /\ contents' = new
             /\ \E saved \in SaveOutcomes :
                    /\ Saved(saved, new)
                    /\ CycleReturns(p, IF saved THEN "Ok" ELSE "save error", lg)

\* The head of the for loop at position i, up to the fetch's await.
NextSubscription(p, i, successful, lg) ==
    IF i > Len(contents.watched_satellites)
    THEN Commit(p, successful, lg)
    ELSE IF FindLocation(contents.locations,
                         contents.watched_satellites[i].location) = 0
    THEN /\ UNCHANGED << contents, disk, save_failures >>
         /\ CycleReturns(p, "panic", lg)
    ELSE /\ lock' = p
         /\ pc' = [pc EXCEPT ![p] = "fetch"]
         /\ idx' = i
         /\ successful_notifications' = successful
         /\ log' = Summary(lg)
         /\ returned' = NoReturn
         /\ UNCHANGED << contents, disk, cmd, held, save_failures >>

RunsCycle(p) == IF p = "sched" THEN TRUE ELSE cmd[p] = "update_watched_satellites"

\* The cycle entered without waiting for the guard.
notify_acquire_unlocked(p) ==
    /\ pc[p] = "lock"
    /\ RunsCycle(p)
    /\ NextSubscription(p, 1, << >>, << >>)
    /\ UNCHANGED now

\* database.write().await resolves and the loop runs to its first fetch.
notify_acquire(p) ==
    /\ pc[p] = "lock"
    /\ RunsCycle(p)
    /\ CanWrite
    /\ NextSubscription(p, 1, << >>, << >>)
    /\ UNCHANGED now

HistoryFits(watched_satellites, successful) ==
    \/ LookupPanics(watched_satellites, successful)
    \/ LET after == RecordNotifications(watched_satellites, successful)
       IN  \A k \in DOMAIN after : Len(after[k].previous_notifications) <= MaxHist

\* get_satellite_passes resolves: Err, or Ok with the passes fetched.
fetch_return(p, ok, fetched) ==
    /\ pc[p] = "fetch"
    /\ UNCHANGED now
    /\ IF ~ok
       THEN /\ UNCHANGED << contents, disk, save_failures >>
            /\ CycleReturns(p, "fetch error",
                   Append(log, LogEntry(idx, "err", << >>, << >>, "none")))
       ELSE IF Len(fetched) = 0
       THEN NextSubscription(p, idx + 1, successful_notifications,
                Append(log, LogEntry(idx, "ok", fetched, << >>, "none")))
       ELSE LET ws == contents.watched_satellites[idx]
                staged == StagedTriples(ws, fetched)
                successful == successful_notifications \o staged
            IN  /\ HistoryFits(contents.watched_satellites, successful)
                /\ successful_notifications' = successful
                /\ pc' = [pc EXCEPT ![p] = "send"]
                /\ log' = Append(log, LogEntry(idx, "ok", fetched,
                              Windows(NewPasses(ws, fetched)), "pending"))
                /\ returned' = NoReturn
                /\ UNCHANGED << contents, disk, lock, cmd, held, idx, save_failures >>

\* The result of send_message dropped instead of propagated with ?.
send_return_ignoring_error(p, ok) ==
    /\ pc[p] = "send"
    /\ UNCHANGED now
    /\ NextSubscription(p, idx + 1, successful_notifications,
           SetSink(log, IF ok THEN "ok" ELSE "fail"))

\* http.send_message resolves.
send_return(p, ok) ==
    /\ pc[p] = "send"
    /\ UNCHANGED now
    /\ IF ok
       THEN NextSubscription(p, idx + 1, successful_notifications, SetSink(log, "ok"))
       ELSE /\ UNCHANGED << contents, disk, save_failures >>
            /\ CycleReturns(p, "send error", SetSink(log, "fail"))

\* ------------------------------------------------------------ the commands
CycleLocals == << idx, successful_notifications >>

WatchArg(id, location, min_max_elevation, author, channel) ==
    [satellite_id |-> id, location |-> location,
     min_max_elevation |-> min_max_elevation, author |-> author, channel |-> channel]

\* The invocations of watch-satellite the system draws from: the scenario's
\* subscription; the same satellite, channel and location with another
\* threshold and watcher; the scenario's four values from another user;
\* thresholds at and beyond the limits.
WatchArgs ==
    { WatchArg(25338, "Backyard", 20, "U1", "C1"),
      WatchArg(25338, "Backyard", 35, "U2", "C1"),
      WatchArg(25338, "Backyard", 20, "U2", "C1"),
      WatchArg(25338, "Backyard", 0, "U1", "C1"),
      WatchArg(25338, "Backyard", 91, "U1", "C1") }

UnwatchArgs ==
    [satellite_id : SatelliteIds, channel : Channels,
     location : LocationNames, author : Users]

LocationArg(name, author) == [name |-> name, author |-> author]

AddLocationArgs == { LocationArg("Backyard", "U1"), LocationArg("Roof", "U2") }

RemoveLocationArgs == [name : LocationNames, author : Users]

\* The command returns r to poise; r = "panic" is a CommandPanic.
CommandReturns(h, r) ==
    /\ pc' = [pc EXCEPT ![h] = "idle"]
    /\ cmd' = [cmd EXCEPT ![h] = "none"]
    /\ returned' = Return(h, cmd[h], r)
    /\ held' = NoLocals
    /\ KeepLog

\* An early return Err(r): the guard, if taken, is dropped, nothing written.
Rejects(h, r) ==
    /\ CommandReturns(h, r)
    /\ UNCHANGED << contents, disk, lock, save_failures >>

\* Database::save()? after a mutation, then the await of the reply with the
\* guard still in scope.
SaveAndReply(h, new, locals) ==
    /\ contents' = new
    /\ \E saved \in SaveOutcomes :
          /\ Saved(saved, new)
          /\ IF saved
             THEN /\ lock' = h
                  /\ pc' = [pc EXCEPT ![h] = "reply"]
                  /\ held' = locals
                  /\ returned' = NoReturn
                  /\ KeepLog
                  /\ UNCHANGED cmd
             ELSE /\ lock' = "free"
                  /\ CommandReturns(h, "save error")

NewLocation(a) == [name |-> a.name, creator |-> a.author]

\* add_location without the check for a location of that name.
add_location_unchecked(h, a) ==
    /\ pc[h] = "lock"
    /\ cmd[h] = "add_location"
    /\ CanWrite
    /\ UNCHANGED << now, CycleLocals >>
    /\ Len(contents.locations) < MaxLocs
    /\ SaveAndReply(h,
           [contents EXCEPT !.locations = Append(@, NewLocation(a))],
           NoLocals)

add_location(h, a) ==
    /\ pc[h] = "lock"
    /\ cmd[h] = "add_location"
    /\ CanWrite
    /\ UNCHANGED << now, CycleLocals >>
    /\ IF \E l \in Range(contents.locations) : l.name = a.name
       THEN Rejects(h, "location already exists")
       ELSE /\ Len(contents.locations) < MaxLocs
            /\ SaveAndReply(h,
                   [contents EXCEPT !.locations = Append(@, NewLocation(a))],
                   NoLocals)

\* The creator check left out.
MayRemoveLocationAnyone(author, location) == TRUE

MayRemoveLocation(author, location) == author = location.creator

\* The removal taking the subscriptions at the location with it.
remove_location_cascading(h, a) ==
    /\ pc[h] = "lock"
    /\ cmd[h] = "remove_location"
    /\ CanWrite
    /\ UNCHANGED << now, CycleLocals >>
    /\ LET index == FindLocation(contents.locations, a.name)
       IN  IF index = 0
           THEN Rejects(h, "no such location")
           ELSE IF ~MayRemoveLocation(a.author, contents.locations[index])
           THEN Rejects(h, "location must be removed by its creator")
           ELSE SaveAndReply(h,
                    [contents EXCEPT
                        !.locations = RemoveAt(@, index),
                        !.watched_satellites =
                            SelectSeq(@, LAMBDA ws : ws.location # a.name)],
                    NoLocals)

remove_location(h, a) ==
    /\ pc[h] = "lock"
    /\ cmd[h] = "remove_location"
    /\ CanWrite
    /\ UNCHANGED << now, CycleLocals >>
    /\ LET index == FindLocation(contents.locations, a.name)
       IN  IF index = 0
           THEN Rejects(h, "no such location")
           ELSE IF ~MayRemoveLocation(a.author, contents.locations[index])
           THEN Rejects(h, "location must be removed by its creator")
           ELSE SaveAndReply(h,
                    [contents EXCEPT !.locations = RemoveAt(@, index)],
                    NoLocals)

ElevationRejected(min_max_elevation) ==
    min_max_elevation > 90 \/ min_max_elevation = 0

\* The duplicate check comparing the watcher as well.
AlreadyWatchedByWatcher(watched_satellite, a) ==
    /\ watched_satellite.satellite_id = a.satellite_id
    /\ watched_satellite.location = a.location
    /\ watched_satellite.min_max_elevation = a.min_max_elevation
    /\ watched_satellite.channel = a.channel
    /\ watched_satellite.watcher = a.author

AlreadyWatched(watched_satellite, a) ==
    /\ watched_satellite.satellite_id = a.satellite_id
    /\ watched_satellite.location = a.location
    /\ watched_satellite.min_max_elevation = a.min_max_elevation
    /\ watched_satellite.channel = a.channel

NewWatchedSatellite(a, name) ==
    [satellite_id |-> a.satellite_id,
     channel |-> a.channel,
     watcher |-> a.author,
     locale |-> DefaultLocale,
     location |-> a.location,
     name |-> name,
     min_max_elevation |-> a.min_max_elevation,
     previous_notifications |-> << >>]

\* watch_satellite without the lookup of the location.
watch_satellite_any_location(h, a) ==
    /\ pc[h] = "lock"
    /\ cmd[h] = "watch_satellite"
    /\ UNCHANGED << now, CycleLocals >>
    /\ IF ElevationRejected(a.min_max_elevation)
       THEN Rejects(h, "min_max_elevation must be between 1 and 90")
       ELSE /\ CanWrite
            /\ IF \E ws \in Range(contents.watched_satellites) : AlreadyWatched(ws, a)
               THEN Rejects(h, "satellite already being watched in this channel with these parameters")
               ELSE /\ Len(contents.watched_satellites) < MaxSubs
                    /\ lock' = h
                    /\ pc' = [pc EXCEPT ![h] = "name"]
                    /\ held' = [kind |-> "watch_satellite", args |-> a]
                    /\ returned' = NoReturn
                    /\ KeepLog
                    /\ UNCHANGED << contents, disk, cmd, save_failures >>

\* watch_satellite up to the await of get_name_from_norad_id.
watch_satellite(h, a) ==
    /\ pc[h] = "lock"
    /\ cmd[h] = "watch_satellite"
    /\ UNCHANGED << now, CycleLocals >>
    /\ IF ElevationRejected(a.min_max_elevation)
       THEN Rejects(h, "min_max_elevation must be between 1 and 90")
       ELSE /\ CanWrite
            /\ IF \E ws \in Range(contents.watched_satellites) : AlreadyWatched(ws, a)
               THEN Rejects(h, "satellite already being watched in this channel with these parameters")
               ELSE IF FindLocation(contents.locations, a.location) = 0
               THEN Rejects(h, "no such location")
               ELSE /\ Len(contents.watched_satellites) < MaxSubs
                    /\ lock' = h
                    /\ pc' = [pc EXCEPT ![h] = "name"]
                    /\ held' = [kind |-> "watch_satellite", args |-> a]
                    /\ returned' = NoReturn
                    /\ KeepLog
                    /\ UNCHANGED << contents, disk, cmd, save_failures >>

\* The name lookup resolves; push, save, reply.
watch_name_return(h, ok) ==
    /\ pc[h] = "name"
    /\ UNCHANGED << now, CycleLocals >>
    /\ IF ~ok
       THEN /\ lock' = "free"
            /\ CommandReturns(h, "name lookup error")
            /\ UNCHANGED << contents, disk, save_failures >>
       ELSE SaveAndReply(h,
                [contents EXCEPT !.watched_satellites =
                    Append(@, NewWatchedSatellite(held.args,
                                  SatelliteName(held.args.satellite_id)))],
                NoLocals)

UnwatchMatches(watched_satellite, a) ==
    /\ watched_satellite.satellite_id = a.satellite_id
    /\ watched_satellite.channel = a.channel
    /\ watched_satellite.location = a.location

MayUnwatch(author, watched_satellite) == author = watched_satellite.watcher

\* After remove(index) the reply formats watched_satellites[index].name: the
\* element that followed the removed one, or an index out of bounds.
unwatch_satellite(h, a) ==
    /\ pc[h] = "lock"
    /\ cmd[h] = "unwatch_satellite"
    /\ CanWrite
    /\ UNCHANGED << now, CycleLocals >>
    /\ LET index == Position({ i \in DOMAIN contents.watched_satellites :
                                  UnwatchMatches(contents.watched_satellites[i], a) })
       IN  IF index = 0
           THEN Rejects(h, "no such watched satellite")
           ELSE IF ~MayUnwatch(a.author, contents.watched_satellites[index])
           THEN Rejects(h, "watched satellite must be removed by its watcher")
           ELSE LET new == [contents EXCEPT !.watched_satellites = RemoveAt(@, index)]
                IN  /\ contents' = new
                    /\ \E saved \in SaveOutcomes :
                          /\ Saved(saved, new)
                          /\ IF ~saved
                             THEN /\ lock' = "free"
                                  /\ CommandReturns(h, "save error")
                             ELSE IF index > Len(new.watched_satellites)
                             THEN /\ lock' = "free"
                                  /\ CommandReturns(h, "panic")
                             ELSE /\ lock' = h
                                  /\ pc' = [pc EXCEPT ![h] = "reply"]
                                  /\ held' = [kind |-> "unwatch_satellite",
                                              reported |-> new.watched_satellites[index].name,
                                              removed |-> contents.watched_satellites[index].name]
                                  /\ returned' = NoReturn
                                  /\ KeepLog
                                  /\ UNCHANGED cmd

\* The handler returning with its guard leaked.
reply_return_keeping_guard(h, ok) ==
    /\ pc[h] = "reply"
    /\ lock' = lock
    /\ CommandReturns(h, IF ok THEN "Ok" ELSE "reply error")
    /\ UNCHANGED << contents, disk, now, CycleLocals, save_failures >>

\* ctx.send / ctx.say resolves and the handler returns; a guard still in
\* scope is dropped.
reply_return(h, ok) ==
    /\ pc[h] = "reply"
    /\ lock' = IF lock = h THEN "free" ELSE lock
    /\ CommandReturns(h, IF ok THEN "Ok" ELSE "reply error")
    /\ UNCHANGED << contents, disk, now, CycleLocals, save_failures >>

\* ------------------------------------------------------------- environment
\* A user invokes a slash command; ctx.defer() has resolved.
Invoke(h, c) ==
    /\ pc[h] = "idle"
    /\ pc' = [pc EXCEPT ![h] = "lock"]
    /\ cmd' = [cmd EXCEPT ![h] = c]
    /\ returned' = NoReturn
    /\ KeepLog
    /\ UNCHANGED << contents, disk, lock, held, now, CycleLocals, save_failures >>

\* interval.tick() resolves in the spawned task.
interval_tick ==
    /\ pc["sched"] = "tick"
    /\ pc' = [pc EXCEPT !["sched"] = "lock"]
    /\ returned' = NoReturn
    /\ KeepLog
    /\ UNCHANGED << contents, disk, lock, cmd, held, now, CycleLocals, save_failures >>

clock_advance(t) ==
    /\ t > now
    /\ now' = t
    /\ returned' = NoReturn
    /\ KeepLog
    /\ UNCHANGED << contents, disk, lock, pc, cmd, held, CycleLocals, save_failures >>

\* ------------------------------------------------------------ the system
Next ==
    \/ \E t \in ClockValues : clock_advance(t)
    \/ interval_tick
    \/ \E h \in Handlers, c \in Commands : Invoke(h, c)
    \/ \E p \in Procs : notify_acquire(p)
    \/ \E p \in Procs, ok \in BOOLEAN, f \in SystemResponses(now) : fetch_return(p, ok, f)
    \/ \E p \in Procs, ok \in BOOLEAN : send_return(p, ok)
    \/ \E h \in Handlers, a \in AddLocationArgs : add_location(h, a)
    \/ \E h \in Handlers, a \in RemoveLocationArgs : remove_location(h, a)
    \/ \E h \in Handlers, a \in WatchArgs : watch_satellite(h, a)
    \/ \E h \in Handlers, ok \in BOOLEAN : watch_name_return(h, ok)
    \/ \E h \in Handlers, a \in UnwatchArgs : unwatch_satellite(h, a)
    \/ \E h \in Handlers, ok \in BOOLEAN : reply_return(h, ok)

Spec == Init /\ [][Next]_vars

\* ------------------------------------------------- the system, scheduled
\* The system with one location, one subscription and the callers that are
\* turned down (a threshold above the limit, a user who is not the creator
\* or watcher), under the scheduling the runtime gives: every external call
\* resolves (the prediction fetch, the name lookup, the send, the reply),
\* and tokio's RwLock is fair, it hands the guard to its waiters in the
\* order they queued, so a task that waits for it while it is released again
\* and again gets it.
LiveWatchArgs ==
    { WatchArg(25338, "Backyard", 20, "U1", "C1"),
      WatchArg(25338, "Backyard", 91, "U1", "C1") }

LiveUnwatchArgs ==
    { a \in UnwatchArgs :
        a.satellite_id = 25338 /\ a.channel = "C1" /\ a.location = "Backyard" }

LiveLocationArgs == { LocationArg("Backyard", u) : u \in Users }

NextLive ==
    \/ interval_tick
    \/ \E h \in Handlers, c \in Commands : Invoke(h, c)
    \/ \E p \in Procs : notify_acquire(p)
    \/ \E p \in Procs, ok \in BOOLEAN, f \in SystemResponses(now) : fetch_return(p, ok, f)
    \/ \E p \in Procs, ok \in BOOLEAN : send_return(p, ok)
    \/ \E h \in Handlers : add_location(h, LocationArg("Backyard", "U1"))
    \/ \E h \in Handlers, a \in LiveLocationArgs : remove_location(h, a)
    \/ \E h \in Handlers, a \in LiveWatchArgs : watch_satellite(h, a)
    \/ \E h \in Handlers, ok \in BOOLEAN : watch_name_return(h, ok)
    \/ \E h \in Handlers, a \in LiveUnwatchArgs : unwatch_satellite(h, a)
    \/ \E h \in Handlers, ok \in BOOLEAN : reply_return(h, ok)

ExternalCallsReturn ==
    /\ \A p \in Procs :
          /\ WF_vars(\E ok \in BOOLEAN, f \in SystemResponses(now) : fetch_return(p, ok, f))
          /\ WF_vars(\E ok \in BOOLEAN : send_return(p, ok))
    /\ \A h \in Handlers :
          /\ WF_vars(\E ok \in BOOLEAN : watch_name_return(h, ok))
          /\ WF_vars(\E ok \in BOOLEAN : reply_return(h, ok))

FairLock ==
    /\ \A p \in Procs : SF_vars(notify_acquire(p))
    /\ \A h \in Handlers :
          /\ SF_vars(add_location(h, LocationArg("Backyard", "U1")))
          /\ SF_vars(\E a \in LiveLocationArgs : remove_location(h, a))
          /\ SF_vars(\E a \in LiveWatchArgs : watch_satellite(h, a))
          /\ SF_vars(\E a \in LiveUnwatchArgs : unwatch_satellite(h, a))

SpecLive == Init /\ [][NextLive]_vars /\ ExternalCallsReturn /\ FairLock

\* ------------------------------------------------- the cycle on its own
\* The interval task alone, on a store the commands have built before: both
\* locations, and the scenario's subscription, alone or followed by one for
\* the same satellite with another threshold or by one for another satellite
\* elsewhere.  The prediction source answers with any passes of the pool and
\* the clock moves.
ScenarioSubscription ==
    NewWatchedSatellite(WatchArg(25338, "Backyard", 20, "U1", "C1"), SatelliteName(25338))

CycleSubscriptions ==
    { NewWatchedSatellite(a, SatelliteName(a.satellite_id)) :
        a \in { WatchArg(25338, "Backyard", 20, "U1", "C1"),
                WatchArg(25338, "Backyard", 35, "U2", "C1"),
                WatchArg(33591, "Roof", 20, "U1", "C2") } }

CycleStores ==
    { [locations |-> << NewLocation(LocationArg("Backyard", "U1")),
                        NewLocation(LocationArg("Roof", "U2")) >>,
       watched_satellites |-> w] :
        w \in { v \in InjectiveSeqs(CycleSubscriptions, 2) :
                    v # << >> /\ v[1] = ScenarioSubscription } }

InitCycle ==
    /\ contents \in CycleStores
    /\ disk = contents
    /\ lock = "free"
    /\ pc = [p \in Procs |-> IF p = "sched" THEN "tick" ELSE "idle"]
    /\ cmd = [h \in Handlers |-> "none"]
    /\ held = NoLocals
    /\ idx = 0
    /\ successful_notifications = << >>
    /\ now = 900
    /\ save_failures = 0
    /\ returned = NoReturn
    /\ log = << >>

NextCycle ==
    \/ \E t \in ClockValues : clock_advance(t)
    \/ interval_tick
    \/ notify_acquire("sched")
    \/ \E ok \in BOOLEAN, f \in Responses(now) : fetch_return("sched", ok, f)
    \/ \E ok \in BOOLEAN : send_return("sched", ok)

SpecCycle == InitCycle /\ [][NextCycle]_vars

\* ------------------------------------------- watch_satellite on its own
\* One handler adding the location and watching and unwatching satellite
\* 25338 there, with thresholds below, at, inside and above the limits of
\* the elevation check.
Thresholds == {-5, 0, 1, 20, 90, 91}

ElevationArgs == { WatchArg(25338, "Backyard", e, "U1", "C1") : e \in Thresholds }

WatchCommands == { "add_location", "watch_satellite", "unwatch_satellite" }

NextWatch ==
    \/ \E h \in Handlers, c \in WatchCommands : Invoke(h, c)
    \/ \E h \in Handlers : add_location(h, LocationArg("Backyard", "U1"))
    \/ \E h \in Handlers, a \in ElevationArgs : watch_satellite(h, a)
    \/ \E h \in Handlers, ok \in BOOLEAN : watch_name_return(h, ok)
    \/ \E h \in Handlers, a \in UnwatchArgs : unwatch_satellite(h, a)
    \/ \E h \in Handlers, ok \in BOOLEAN : reply_return(h, ok)

SpecWatch == Init /\ [][NextWatch]_vars

\* ---------------------------------------- the dedup and decay policy alone
\* The duplicate test and the retain closure applied to every history of up
\* to MaxHist windows, every candidate pass and every clock value below: the
\* windows lie 9 and 10 seconds around (1000, 1300), the clock values around
\* 24 hours after the starts and ends.
PolicyWindows ==
    { << 1000, 1300 >>, << 1009, 1291 >>, << 1010, 1300 >>,
      << 1000, 1310 >>, << 991, 1309 >>, << 990, 1300 >> }

PolicyClock == { 900, 87399, 87400, 87401, 87699, 87700 }

PolicyInputs ==
    [kind : {"policy"},
     previous_notifications : UNION { [1..n -> PolicyWindows] : n \in 0..MaxHist },
     pass : { Pass(w[1], w[2], 35) : w \in PolicyWindows },
     current_utc : PolicyClock]

InitPolicy ==
    /\ contents = EmptyContents
    /\ disk = EmptyContents
    /\ lock = "sched"
    /\ pc = [p \in Procs |-> IF p = "sched" THEN "policy" ELSE "idle"]
    /\ cmd = [h \in Handlers |-> "none"]
    /\ held \in PolicyInputs
    /\ idx = 0
    /\ successful_notifications = << >>
    /\ now = held.current_utc
    /\ save_failures = 0
    /\ returned = NoReturn
    /\ log = << >>

\* The any(..) over previous_notifications in the loop over the passes.
is_duplicate ==
    /\ pc["sched"] = "policy"
    /\ returned = NoReturn
    /\ returned' = Return("sched", "is_duplicate",
                       AlreadyNotified(held.previous_notifications, held.pass))
    /\ UNCHANGED << contents, disk, lock, pc, cmd, held, idx,
                    successful_notifications, now, save_failures, log >>

\* The retain(..) on previous_notifications after the commit loop.
prune ==
    /\ pc["sched"] = "policy"
    /\ returned = NoReturn
    /\ returned' = Return("sched", "prune", Prune(held.previous_notifications, now))
    /\ UNCHANGED << contents, disk, lock, pc, cmd, held, idx,
                    successful_notifications, now, save_failures, log >>

NextPolicy == is_duplicate \/ prune

SpecPolicy == InitPolicy /\ [][NextPolicy]_vars

\* ------------------------------------------------- Database::open, startup
\* main opens the database before anything else runs.  The snapshot file is
\* absent, or holds bytes that do not deserialize, or holds a store.  The
\* Database built at the top of open is dropped when open returns early with
\* ?, and Drop for Database saves what it holds.
AbsentFile == [absent |-> TRUE]

CorruptFile == [corrupt |-> TRUE]

StoredSubscriptions ==
    { [ws EXCEPT !.previous_notifications = h] :
        ws \in CycleSubscriptions, h \in { << >>, << << 1000, 1300 >> >> } }

StoredFiles ==
    [locations : { << >>,
                   << NewLocation(LocationArg("Backyard", "U1")) >>,
                   << NewLocation(LocationArg("Backyard", "U1")),
                      NewLocation(LocationArg("Roof", "U2")) >> },
     watched_satellites : InjectiveSeqs(StoredSubscriptions, MaxSubs)]

InitOpen ==
    /\ contents = EmptyContents
    /\ disk \in {AbsentFile, CorruptFile} \cup StoredFiles
    /\ lock = "free"
    /\ pc = [p \in Procs |-> IF p = "sched" THEN "open" ELSE "idle"]
    /\ cmd = [h \in Handlers |-> "none"]
    /\ held = NoLocals
    /\ idx = 0
    /\ successful_notifications = << >>
    /\ now = 900
    /\ save_failures = 0
    /\ returned = NoReturn
    /\ log = << >>

\* open returns Err(r): the local Database goes out of scope and its drop
\* calls save().unwrap() on the empty contents it holds.
OpenFails(r, failures) ==
    /\ contents' = contents
    /\ pc' = [pc EXCEPT !["sched"] = "exit"]
    /\ \E saved \in IF failures < MaxSaveFailures THEN BOOLEAN ELSE {TRUE} :
          /\ disk' = IF saved THEN contents ELSE disk
          /\ save_failures' = IF saved THEN failures ELSE failures + 1
          /\ returned' = Return("main", "Database::open", IF saved THEN r ELSE "panic")

Database_open ==
    /\ pc["sched"] = "open"
    /\ UNCHANGED << lock, cmd, held, idx, successful_notifications, now, log >>
    /\ IF disk = AbsentFile
       THEN \E saved \in SaveOutcomes :
               IF saved
               THEN /\ Saved(TRUE, contents)
                    /\ contents' = contents
                    /\ pc' = [pc EXCEPT !["sched"] = "tick"]
                    /\ returned' = Return("main", "Database::open", "Ok")
               ELSE OpenFails("save error", save_failures + 1)
       ELSE IF disk = CorruptFile
       THEN OpenFails("load error", save_failures)
       ELSE /\ contents' = disk
            /\ pc' = [pc EXCEPT !["sched"] = "tick"]
            /\ returned' = Return("main", "Database::open", "Ok")
            /\ UNCHANGED << disk, save_failures >>

NextOpen == Database_open

SpecOpen == InitOpen /\ [][NextOpen]_vars

\* ====================================================== observed properties
\* The state right after notify_of_new_passes has returned: returned names
\* the call and its result, log holds one entry per subscription the loop
\* reached, contents and disk are what the cycle left.
CycleEnded == returned.call = "notify_of_new_passes"

CycleEndedWith(r) == CycleEnded /\ returned.value = r

CycleCommitted == CycleEnded /\ returned.value \in {"Ok", "save error"}

AsPass(w) == [start_utc |-> w[1], end_utc |-> w[2]]

Retained(w, t) == t - RETENTION < w[1] /\ t - RETENTION < w[2]

\* The windows the cycle staged for the subscription at position k.
StagedFor(lg, k) ==
    LET E == { j \in DOMAIN lg : lg[j].sub = k }
    IN  IF E = {} THEN << >> ELSE lg[CHOOSE j \in E : TRUE].staged

History(c, k) == c.watched_satellites[k].previous_notifications

SameFourTuple(x, y) ==
    /\ x.satellite_id = y.satellite_id
    /\ x.location = y.location
    /\ x.min_max_elevation = y.min_max_elevation
    /\ x.channel = y.channel

MutationCommands ==
    { "add_location", "remove_location", "watch_satellite", "unwatch_satellite" }

\* C1 - Idempotent delivery.  A second cycle on the unchanged store and the
\* same responses stages a pass again exactly when the subscription's history
\* does not recognise it.  So after a cycle that completed without error,
\* every window it staged for a subscription, and that its prune retains,
\* is recognised (start and end within 10 seconds of an entry) by that
\* subscription's own history.
IdempotentDelivery ==
    CycleEndedWith("Ok") =>
        \A j \in DOMAIN log : \A i \in DOMAIN log[j].staged :
            Retained(log[j].staged[i], now) =>
                AlreadyNotified(History(contents, log[j].sub), AsPass(log[j].staged[i]))

\* C2 - History attribution.  In the step in which a cycle commits, the
\* history of every subscription S becomes its old history followed by the
\* windows staged for S and by no others, pruned.
HistoryAttribution ==
    [][ CycleCommitted' =>
            \A k \in DOMAIN contents.watched_satellites :
                History(contents', k) =
                    Prune(History(contents, k) \o StagedFor(log', k), now) ]_vars

\* C3 - Delivery gates history.  When a cycle has ended and the sink failed
\* for a subscription's batch, the step that ended the cycle wrote neither
\* the store nor the snapshot file, and no window of that batch is recognised
\* by the subscription's history: the next cycle stages it again when the
\* prediction source returns it again.  No step taken while the cycle was in
\* flight wrote the store or the file either.
DeliveryGatesHistory ==
    [][ /\ (CycleEnded' /\ \E j \in DOMAIN log' : log'[j].sink = "fail") =>
              /\ contents' = contents
              /\ disk' = disk
              /\ \A j \in DOMAIN log' :
                    log'[j].sink = "fail" =>
                        \A i \in DOMAIN log'[j].staged :
                            ~AlreadyNotified(History(contents', log'[j].sub),
                                             AsPass(log'[j].staged[i]))
        /\ (CycleRunning /\ ~CycleEnded') =>
              (contents' = contents /\ disk' = disk) ]_vars

\* A cycle has ended on a failed send of a batch that had staged a window.
SinkFailedWithStagedWindows ==
    /\ CycleEndedWith("send error")
    /\ \E j \in DOMAIN log : log[j].sink = "fail" /\ log[j].staged # << >>

\* C4 - Fetch-failure isolation.  When a cycle has ended in which the fetch
\* failed for some subscription, the cycle did not fail with the fetch's
\* error and its loop reached every subscription of the store.
FetchFailureIsolation ==
    (CycleEnded /\ \E j \in DOMAIN log : log[j].fetch = "err") =>
        /\ returned.value # "fetch error"
        /\ \A k \in DOMAIN contents.watched_satellites :
              \E j \in DOMAIN log : log[j].sub = k

\* C5 - Delivery-failure isolation.  When a cycle has ended in which the sink
\* failed for one batch, every window of a batch that was delivered in the
\* same cycle, and that the prune retains, is in the history of the
\* subscription it was staged for.
DeliveryFailureIsolation ==
    (CycleEnded /\ \E j \in DOMAIN log : log[j].sink = "fail") =>
        \A j \in DOMAIN log :
            log[j].sink = "ok" =>
                \A i \in DOMAIN log[j].staged :
                    Retained(log[j].staged[i], now) =>
                        \E e \in Range(History(contents, log[j].sub)) :
                            e = log[j].staged[i]

\* C6 - Missing-location skip.  When a cycle has ended on a store in which a
\* subscription names a location that no Location has, the cycle did not
\* crash: notify_of_new_passes returned, it did not unwind.
MissingLocationSkip ==
    (CycleEnded /\ \E k \in DOMAIN contents.watched_satellites :
                       FindLocation(contents.locations,
                                    contents.watched_satellites[k].location) = 0) =>
        returned.value # "panic"

\* C7 - Non-overlap of cycles.  At most one task is between the first fetch
\* and the commit of a cycle, and a trigger (the interval task or
\* update_watched_satellites) that waits for the lock while another task's
\* cycle is in flight is still waiting after the step.
NonOverlapOfCycles ==
    [][ /\ Cardinality({ p \in Procs : pc'[p] \in {"fetch", "send"} }) <= 1
        /\ \A p \in Procs :
              (/\ pc[p] = "lock"
               /\ RunsCycle(p)
               /\ \E q \in Procs \ {p} : pc[q] \in {"fetch", "send"}) =>
                  pc'[p] = "lock" ]_vars

\* The interval task's cycle waits on a fetch while a manual trigger waits
\* for the lock.
TriggerWaitsMidCycle ==
    /\ pc["sched"] = "fetch"
    /\ pc["h1"] = "lock"
    /\ cmd["h1"] = "update_watched_satellites"

\* C8 as stated - while a cycle waits on a prediction fetch it holds no lock
\* on the store.
FetchHoldsNoLock == \A p \in Procs : pc[p] = "fetch" => lock # p

\* C8 amended - while a cycle waits on a prediction fetch or on a send it
\* holds the write guard: a step that does not end the cycle leaves the store
\* and the snapshot file as they are, and a command that waits for the lock
\* either keeps waiting or is a watch_satellite turned down by its elevation
\* check, which takes no lock.
CycleHoldsWriteLock ==
    [][ \A p \in Procs :
            pc[p] \in {"fetch", "send"} =>
                /\ lock = p
                /\ ~CycleEnded' => (contents' = contents /\ disk' = disk)
                /\ \A h \in Handlers \ {p} :
                      pc[h] = "lock" =>
                          \/ pc'[h] = "lock"
                          \/ /\ cmd[h] = "watch_satellite"
                             /\ returned' = Return(h, "watch_satellite",
                                    "min_max_elevation must be between 1 and 90") ]_vars

\* A mutation command waits for the lock while the interval task's cycle,
\* holding it, waits on a fetch.
MutationWaitsOnFetch ==
    /\ pc["sched"] = "fetch"
    /\ lock = "sched"
    /\ pc["h1"] = "lock"
    /\ cmd["h1"] \in MutationCommands

\* C9 - Subscription uniqueness.  After every step no two stored
\* subscriptions agree on (satellite_id, location, min_max_elevation,
\* channel), and a watch_satellite call whose four values equal those of a
\* stored subscription returns the conflict error and leaves the store and
\* the snapshot file unmodified.
SubscriptionUniqueness ==
    [][ /\ \A i, j \in DOMAIN contents'.watched_satellites :
              SameFourTuple(contents'.watched_satellites[i],
                            contents'.watched_satellites[j]) => i = j
        /\ \A h \in Handlers, a \in WatchArgs :
              (/\ watch_satellite(h, a)
               /\ \E ws \in Range(contents.watched_satellites) : SameFourTuple(ws, a)) =>
                  /\ returned' = Return(h, "watch_satellite",
                         "satellite already being watched in this channel with these parameters")
                  /\ contents' = contents
                  /\ disk' = disk ]_vars

\* A watch_satellite call has been turned down as a duplicate while the
\* store holds a subscription.
DuplicateWatchRejected ==
    /\ returned.call = "watch_satellite"
    /\ returned.value = "satellite already being watched in this channel with these parameters"
    /\ contents.watched_satellites # << >>

\* C10 - Creator-only deletion.  remove_location by an actor other than the
\* creator of the location with that name, and unwatch_satellite by an actor
\* other than the watcher of the first subscription matching satellite,
\* channel and location, return the authorisation error and leave the store
\* and the snapshot file as they are, the targeted record included.
CreatorOnlyDeletion ==
    [][ /\ \A h \in Handlers, a \in RemoveLocationArgs :
              (/\ remove_location(h, a)
               /\ \E l \in Range(contents.locations) :
                      l.name = a.name /\ l.creator # a.author) =>
                  /\ returned' = Return(h, "remove_location",
                         "location must be removed by its creator")
                  /\ contents' = contents
                  /\ disk' = disk
        /\ \A h \in Handlers, a \in UnwatchArgs :
              LET M == { k \in DOMAIN contents.watched_satellites :
                           /\ contents.watched_satellites[k].satellite_id = a.satellite_id
                           /\ contents.watched_satellites[k].channel = a.channel
                           /\ contents.watched_satellites[k].location = a.location }
              IN  (/\ unwatch_satellite(h, a)
                   /\ M # {}
                   /\ \E k \in M : /\ \A m \in M : k <= m
                                   /\ contents.watched_satellites[k].watcher # a.author) =>
                      /\ returned' = Return(h, "unwatch_satellite",
                             "watched satellite must be removed by its watcher")
                      /\ contents' = contents
                      /\ disk' = disk ]_vars

\* remove_location has been turned down for an actor who is not the creator,
\* and the location is in the store.
ForeignRemovalRejected ==
    /\ returned.call = "remove_location"
    /\ returned.value = "location must be removed by its creator"
    /\ contents.locations # << >>

\* C11 - Failed mutation is not applied.  A mutation command holds the guard
\* from the step that takes it to the save, so before the step in which it
\* returns from there the store is what it was when the command started.
\* When such a step returns an error or a panic, the store and the snapshot
\* file are what they were before it.
FailedMutationNotApplied ==
    [][ \A h \in Handlers :
            (/\ cmd[h] \in MutationCommands
             /\ pc[h] \in {"lock", "name"}
             /\ returned'.who = h
             /\ returned'.value # "Ok") =>
                (contents' = contents /\ disk' = disk) ]_vars

\* C12 - min_elevation invariant.  After every step every stored
\* subscription has a min_max_elevation greater than 0 and at most 90, and a
\* watch_satellite call with a threshold outside that range, negative ones
\* included, returns an error before it awaits anything and leaves the store
\* and the snapshot file as they are.
MinElevationInvariant ==
    [][ /\ \A ws \in Range(contents'.watched_satellites) :
              0 < ws.min_max_elevation /\ ws.min_max_elevation <= 90
        /\ \A h \in Handlers, a \in ElevationArgs :
              (/\ watch_satellite(h, a)
               /\ ~(0 < a.min_max_elevation /\ a.min_max_elevation <= 90)) =>
                  /\ returned'.who = h
                  /\ returned'.value # "Ok"
                  /\ contents' = contents
                  /\ disk' = disk ]_vars

\* C13 - Duplicate test.  The test answers true exactly when some history
\* entry (s, e) has s within less than 10 seconds of the candidate's start
\* and e within less than 10 seconds of its end; a difference of exactly 10
\* seconds in either is no duplicate.
DuplicateTest ==
    returned.call = "is_duplicate" =>
        (returned.value <=>
            \E k \in DOMAIN held.previous_notifications :
                LET ds == held.previous_notifications[k][1] - held.pass.start_utc
                    de == held.previous_notifications[k][2] - held.pass.end_utc
                IN  -10 < ds /\ ds < 10 /\ -10 < de /\ de < 10)

\* The test has answered false on a history whose only entry starts exactly
\* 10 seconds from the candidate and ends with it.
NoDuplicateAtTenSeconds ==
    /\ returned.call = "is_duplicate"
    /\ returned.value = FALSE
    /\ held.previous_notifications = << << 1010, 1300 >> >>
    /\ held.pass.start_utc = 1000
    /\ held.pass.end_utc = 1300

\* C14 - Prune.  The retain step keeps exactly the entries with
\* now - start < 24h and now - end < 24h, in their original order: the j-th
\* entry of the result is the j-th kept entry of the input, and no entry
\* with now - end >= 24h is in the result.
PruneKeepsRecent ==
    returned.call = "prune" =>
        LET h == held.previous_notifications
            r == returned.value
            K == { i \in DOMAIN h : now - h[i][1] < 86400 /\ now - h[i][2] < 86400 }
        IN  /\ Len(r) = Cardinality(K)
            /\ \A j \in DOMAIN r :
                  r[j] = h[CHOOSE i \in K : Cardinality({ m \in K : m <= i }) = j]
            /\ \A j \in DOMAIN r : ~(now - r[j][2] >= 86400)

\* The retain step, exactly 24 hours after the start of the first entry, has
\* dropped it and kept the entry that starts 9 seconds later.
PruneAtTheBoundary ==
    /\ returned.call = "prune"
    /\ now = 87400
    /\ held.previous_notifications = << << 1000, 1300 >>, << 1009, 1291 >> >>
    /\ returned.value = << << 1009, 1291 >> >>

\* C15 - Sink called only for staged notifications.  Whenever a cycle is
\* waiting on a send for a subscription, the cycle has staged at least one
\* window for that subscription.
SinkOnlyForStaged ==
    \A p \in Procs :
        pc[p] = "send" => log # << >> /\ log[Len(log)].staged # << >>

\* The store holds the scenario's subscription alone, with history h.
ScenarioStore(c, h) ==
    c.watched_satellites =
        << [ScenarioSubscription EXCEPT !.previous_notifications = h] >>

\* C16 - Spec scenario.  With the subscription (25338, Backyard, 20, C1)
\* alone in the store: on an empty history a cycle that fetched the pass
\* 1000-1300 at elevation 35 stages the one window (1000,1300) for the send
\* to C1, and its commit leaves the history [(1000,1300)]; on that history a
\* cycle that fetched the pass 1004-1296 at elevation 35 stages nothing and
\* its commit leaves the history unchanged; on that history a cycle that
\* stages nothing and commits at now = 1000 + 24h + 1 leaves the history [].
SpecScenario ==
    [][ /\ (/\ pc'["sched"] = "send"
            /\ ScenarioStore(contents', << >>)
            /\ log'[Len(log')].passes = << Pass(1000, 1300, 35) >>) =>
               /\ log'[Len(log')].staged = << << 1000, 1300 >> >>
               /\ contents'.watched_satellites[1].channel = "C1"
        /\ (/\ pc'["sched"] = "send"
            /\ ScenarioStore(contents', << << 1000, 1300 >> >>)
            /\ log'[Len(log')].passes = << Pass(1004, 1296, 35) >>) =>
               log'[Len(log')].staged = << >>
        /\ (/\ CycleEndedWith("Ok")'
            /\ now = 900
            /\ ScenarioStore(contents, << >>)
            /\ StagedFor(log', 1) = << << 1000, 1300 >> >>) =>
               ScenarioStore(contents', << << 1000, 1300 >> >>)
        /\ (/\ CycleEndedWith("Ok")'
            /\ now = 900
            /\ ScenarioStore(contents, << << 1000, 1300 >> >>)
            /\ StagedFor(log', 1) = << >>) =>
               ScenarioStore(contents', << << 1000, 1300 >> >>)
        /\ (/\ CycleEndedWith("Ok")'
            /\ now = 1000 + 24 * 60 * 60 + 1
            /\ ScenarioStore(contents, << << 1000, 1300 >> >>)
            /\ StagedFor(log', 1) = << >>) =>
               ScenarioStore(contents', << >>) ]_vars

\* The scenario's second cycle: the history is [(1000,1300)], the pass
\* 1004-1296 has been fetched and nothing is staged.
ScenarioSecondCycle ==
    /\ pc["sched"] = "send"
    /\ ScenarioStore(contents, << << 1000, 1300 >> >>)
    /\ log[Len(log)].passes = << Pass(1004, 1296, 35) >>
    /\ log[Len(log)].staged = << >>

\* C17 - Location-name uniqueness.  After every step no two stored locations
\* have the same name, and an add_location call with the name of a stored
\* location returns the error and leaves the store and the snapshot file as
\* they are.
LocationNameUniqueness ==
    [][ /\ \A i, j \in DOMAIN contents'.locations :
              contents'.locations[i].name = contents'.locations[j].name => i = j
        /\ \A h \in Handlers, a \in AddLocationArgs :
              (/\ add_location(h, a)
               /\ \E i \in DOMAIN contents.locations :
                      contents.locations[i].name = a.name) =>
                  /\ returned' = Return(h, "add_location", "location already exists")
                  /\ contents' = contents
                  /\ disk' = disk ]_vars

\* add_location has been turned down for a name the store holds.
ExistingLocationRejected ==
    /\ returned.call = "add_location"
    /\ returned.value = "location already exists"
    /\ contents.locations # << >>

\* C18 - Persistence consistency.  Whenever no command and no cycle holds
\* the write guard, the snapshot file holds what the in-memory snapshot
\* holds.
PersistenceConsistency == lock = "free" => disk = contents

\* C19 - No deadlock, guaranteed release.  A task whose call has just
\* returned, on whatever path, holds no guard; and when every external call
\* resolves, every task that waits for the guard (the interval task, a
\* manual trigger, a mutation command) gets past the wait.
GuaranteedRelease ==
    /\ [](returned.who \in Procs => lock # returned.who)
    /\ \A p \in Procs : (pc[p] = "lock") ~> (pc[p] # "lock")

\* The interval task waits for the guard while a command holds it.
IntervalTaskWaitsForCommand ==
    /\ pc["sched"] = "lock"
    /\ lock = "h1"

\* C20 - Staging rule.  In the step in which the interval task's cycle has
\* fetched the passes of a subscription and goes on to the send, the triples
\* it adds to successful_notifications carry the subscription's satellite id
\* and exactly the windows of the fetched passes whose max_elevation is at
\* least the subscription's min_max_elevation and that have no history entry
\* within less than 10 seconds of both start and end; and while the cycle
\* runs the store, the histories with it, stays what it was at its start.
StagingRule ==
    [][ /\ (pc["sched"] = "fetch" /\ pc'["sched"] = "send") =>
              LET ws == contents.watched_satellites[idx]
                  h == ws.previous_notifications
                  fetched == log'[Len(log')].passes
                  before == Len(successful_notifications)
                  added == { successful_notifications'[k] :
                               k \in (before + 1)..Len(successful_notifications') }
                  IsNew(q) ==
                      /\ q.max_elevation >= ws.min_max_elevation
                      /\ ~\E k \in DOMAIN h :
                            /\ -10 < h[k][1] - q.start_utc /\ h[k][1] - q.start_utc < 10
                            /\ -10 < h[k][2] - q.end_utc /\ h[k][2] - q.end_utc < 10
              IN  /\ SubSeq(successful_notifications', 1, before) = successful_notifications
                  /\ added = { << ws.satellite_id, q.start_utc, q.end_utc >> :
                                 q \in { r \in Range(fetched) : IsNew(r) } }
        /\ (CycleRunning /\ CycleRunning') => contents' = contents ]_vars

\* For the subscription with threshold 35 a pass at elevation 20 and one at
\* elevation 35 have been fetched, and the one at 35 alone is staged.
EqualElevationStaged ==
    /\ pc["sched"] = "send"
    /\ contents.watched_satellites[idx].min_max_elevation = 35
    /\ Range(log[Len(log)].passes) = { Pass(1010, 1300, 20), Pass(1000, 1300, 35) }
    /\ log[Len(log)].staged = << << 1000, 1300 >> >>

\* C21 - Load failure is non-destructive.  When Database::open finds a
\* snapshot file that does not deserialize, it fails with an error and the
\* file holds afterwards what it held before.
LoadFailureNonDestructive ==
    [][ (pc["sched"] = "open" /\ disk = CorruptFile) =>
            /\ returned'.call = "Database::open"
            /\ returned'.value # "Ok"
            /\ disk' = disk ]_vars

\* C22 - A subscription's watcher can always delete it.  When
\* unwatch_satellite is called by a user for a satellite, channel and
\* location for which the store holds a subscription watched by that user,
\* the step removes one such subscription and nothing else from the list.
WatcherCanUnwatch ==
    [][ \A h \in Handlers, a \in UnwatchArgs :
            LET Own == { k \in DOMAIN contents.watched_satellites :
                           /\ contents.watched_satellites[k].satellite_id = a.satellite_id
                           /\ contents.watched_satellites[k].channel = a.channel
                           /\ contents.watched_satellites[k].location = a.location
                           /\ contents.watched_satellites[k].watcher = a.author }
            IN  (unwatch_satellite(h, a) /\ Own # {}) =>
                    \E k \in Own :
                        contents'.watched_satellites =
                            RemoveAt(contents.watched_satellites, k) ]_vars

\* C23 - unwatch_satellite never indexes out of bounds.  unwatch_satellite
\* never ends in a panic, and the name it is about to report is the name of
\* the subscription it removed.
UnwatchNeverOutOfBounds ==
    /\ returned.call = "unwatch_satellite" => returned.value # "panic"
    /\ held.kind = "unwatch_satellite" => held.reported = held.removed

\* C24 - The prune clock is the cycle's start time.  When a cycle commits,
\* every history entry that is younger than 24 hours at a time no earlier
\* than the cycle's start (the clock when its first fetch returned) is still
\* in its subscription's history after the commit.
PruneClockIsCycleStart ==
    [][ (CycleRunning /\ CycleCommitted' /\ log' # << >>) =>
            \A k \in DOMAIN contents.watched_satellites :
                \A j \in DOMAIN History(contents, k) :
                    Retained(History(contents, k)[j], log'[1].since) =>
                        \E i \in DOMAIN History(contents', k) :
                            History(contents', k)[i] = History(contents, k)[j] ]_vars

\* C25 - The scheduler survives failed cycles.  The interval task never
\* dies, and when a cycle it ran has ended, however it ended, the task is
\* back at interval.tick() to start the next one.
SchedulerSurvives ==
    /\ pc["sched"] # "dead"
    /\ (CycleEnded /\ returned.who = "sched") => pc["sched"] = "tick"

\* C26 - Zero-pass fetch.  When a cycle commits, a subscription whose fetch
\* returned zero passes in that cycle got no message and its history gained
\* no entry: it is its former history, pruned.
ZeroPassFetch ==
    [][ (CycleRunning /\ CycleCommitted') =>
            \A j \in DOMAIN log' :
                (log'[j].fetch = "ok" /\ log'[j].count = 0) =>
                    /\ log'[j].sink = "none"
                    /\ History(contents', log'[j].sub) =
                           Prune(History(contents, log'[j].sub), now) ]_vars

\* C27 - Cycle frame.  Every step of the interval task's cycles leaves the
\* locations as they are and the subscriptions in number and order, each with
\* its satellite_id, name, location, channel, watcher, locale and
\* min_max_elevation: only previous_notifications may differ.
CycleFrame ==
    [][ /\ contents'.locations = contents.locations
        /\ Len(contents'.watched_satellites) = Len(contents.watched_satellites)
        /\ \A k \in DOMAIN contents.watched_satellites :
              [contents'.watched_satellites[k] EXCEPT !.previous_notifications = << >>]
                  = [contents.watched_satellites[k] EXCEPT !.previous_notifications = << >>] ]_vars

\* A cycle has committed over two subscriptions and one of them has a history.
CycleChangedHistories ==
    /\ CycleEndedWith("Ok")
    /\ Len(contents.watched_satellites) = 2
    /\ Len(log) = 2
    /\ \E k \in DOMAIN contents.watched_satellites : History(contents, k) # << >>
    /\ \E k \in DOMAIN contents.watched_satellites : History(contents, k) = << >>

\* C28 - remove_location frame.  remove_location by the creator of an
\* existing location is not turned down, whatever subscriptions name the
\* location; when it has removed and saved, the list of locations is the
\* former one without the one named location, every subscription is as it
\* was, those at the removed location included, and the snapshot file holds
\* the new contents.
RemoveLocationFrame ==
    [][ \A h \in Handlers, a \in RemoveLocationArgs :
            /\ (/\ remove_location(h, a)
                /\ \E l \in Range(contents.locations) :
                       l.name = a.name /\ l.creator = a.author) =>
                   \/ pc'[h] = "reply"
                   \/ returned' = Return(h, "remove_location", "save error")
            /\ (remove_location(h, a) /\ pc'[h] = "reply") =>
                   /\ contents'.watched_satellites = contents.watched_satellites
                   /\ \E i \in DOMAIN contents.locations :
                          /\ contents.locations[i].name = a.name
                          /\ contents'.locations = RemoveAt(contents.locations, i)
                   /\ disk' = contents' ]_vars

\* remove_location has removed a location that a subscription names.
ReferencedLocationRemoved ==
    /\ \E h \in Handlers : pc[h] = "reply" /\ cmd[h] = "remove_location"
    /\ \E k \in DOMAIN contents.watched_satellites :
           FindLocation(contents.locations,
                        contents.watched_satellites[k].location) = 0

\* C29 - Pass order.  While the message of a subscription is being sent, the
\* windows staged for it, which are in the order the passes were evaluated
\* and their embeds added to the message, ascend by start time.
PassOrder ==
    pc["sched"] = "send" =>
        LET staged == log[Len(log)].staged
        IN  \A i, j \in DOMAIN staged : i < j => staged[i][1] <= staged[j][1]

\* C30 - Creation requires an existing location.  The list of subscriptions
\* grows only in the step in which the name lookup of a watch_satellite call
\* has succeeded, and then by a subscription whose location is in the store
\* at that moment; watch_satellite for a location the store does not have,
\* and a name lookup that fails, return an error and leave the store and the
\* snapshot file as they are.
CreationRequiresLocation ==
    [][ /\ Len(contents'.watched_satellites) > Len(contents.watched_satellites) =>
              \E h \in Handlers :
                  /\ watch_name_return(h, TRUE)
                  /\ FindLocation(contents.locations, held.args.location) # 0
                  /\ contents'.watched_satellites =
                         Append(contents.watched_satellites,
                                NewWatchedSatellite(held.args,
                                    SatelliteName(held.args.satellite_id)))
        /\ \A h \in Handlers, a \in WatchArgs :
              (/\ watch_satellite(h, a)
               /\ FindLocation(contents.locations, a.location) = 0) =>
                  /\ returned'.who = h
                  /\ returned'.call = "watch_satellite"
                  /\ returned'.value \notin {"Ok", "none"}
                  /\ contents' = contents
                  /\ disk' = disk
        /\ \A h \in Handlers :
              watch_name_return(h, FALSE) =>
                  /\ returned' = Return(h, "watch_satellite", "name lookup error")
                  /\ contents' = contents
                  /\ disk' = disk ]_vars

\* A store that holds a subscription has turned a new watch_satellite down
\* for lack of the location.
WatchWithoutLocationRejected ==
    /\ returned.call = "watch_satellite"
    /\ returned.value = "no such location"
    /\ contents.watched_satellites # << >>
    /\ contents.locations = << >>

\* C31 - The commit's lookup always succeeds.  Before and after every step,
\* each triple in successful_notifications has a stored subscription with
\* its satellite id; no step of unwatch_satellite is taken while a cycle is
\* between its first fetch and its commit; and when a running cycle ends in
\* a panic, a subscription names a location the store does not have: the
\* panic is the location lookup's, not the commit's.
CommitLookupSucceeds ==
    [][ /\ ~LookupPanics(contents.watched_satellites, successful_notifications)
        /\ ~LookupPanics(contents'.watched_satellites, successful_notifications')
        /\ CycleRunning =>
              \A h \in Handlers, a \in UnwatchArgs : ~unwatch_satellite(h, a)
        /\ (CycleRunning /\ CycleEnded' /\ returned'.value = "panic") =>
              \E k \in DOMAIN contents.watched_satellites :
                  FindLocation(contents.locations,
                               contents.watched_satellites[k].location) = 0 ]_vars

\* A cycle has committed a staged window while unwatch_satellite was waiting
\* for the lock.
CommitWithUnwatchWaiting ==
    /\ CycleEndedWith("Ok")
    /\ \E j \in DOMAIN log : log[j].staged # << >> /\ log[j].sink = "ok"
    /\ \E h \in Handlers : pc[h] = "lock" /\ cmd[h] = "unwatch_satellite"

====
